---- MODULE Spec2Model ----
(***************************************************************************)
(* Conversation state machine of the medical appointment agent:           *)
(* src/main.py (CLI loop), src/agents/medical_agent.py (graph, routers,   *)
(* classifier, handlers) and src/database/db_manager.py (store).          *)
(***************************************************************************)
EXTENDS Naturals, Sequences, FiniteSets, TLC

VARIABLES
    current_state,  \* main(): the dict the CLI loop carries between turns
    state,          \* the graph's working AgentState during process_conversation
    pc,             \* position: "input", "entry", a node name, "END", "error", "done", "exited"
    trace,          \* nodes that ran (to completion or to an exception) in this turn
    decisions,      \* routing decisions taken in this turn, in order
    saves,          \* save_conversation calls made in this turn
    llm_result,     \* outcome of the classifier's llm.invoke in this turn
    extractor,      \* outcome of the structured-output call in this turn
    shown,          \* what main() printed to the user for this turn
    db,             \* the SQLite store: conversations rows and messages rows
    db_faults,      \* failures the store may still have in this run
    turns,          \* turns started so far
    limit,          \* number of turns this run may start
    inputs          \* the texts the user may type in this run

vars == <<current_state, state, pc, trace, decisions, saves, llm_result,
          extractor, shown, db, db_faults, turns, limit, inputs>>

(***************************************************************************)
(* Bounds                                                                  *)
(***************************************************************************)
MaxTurns == 3

\* The turns and the failed writes of a session on a shared, failing store
StoreTurns == 2

MaxFaults == 1

(***************************************************************************)
(* Python values.  None is the missing key / None of the AgentState dict.  *)
(***************************************************************************)
None == "<None>"

\* Python truthiness of an optional string: None and "" are falsy.
Truthy(v) == v # None /\ v # ""

(***************************************************************************)
(* Text.  Strings are kept as strings in the state; every string operation *)
(* of the code (lower, in, isdigit, split, strip) is computed on the       *)
(* string's characters, given by Chars.                                    *)
(***************************************************************************)
Chars(s) ==
    CASE s = "" -> <<>>
      [] s = "Hola" -> <<"H","o","l","a">>
      [] s = "si" -> <<"s","i">>
      [] s = "Hola si" -> <<"H","o","l","a"," ","s","i">>
      [] s = "Hola cita" -> <<"H","o","l","a"," ","c","i","t","a">>
      [] s = "cita" -> <<"c","i","t","a">>
      [] s = "cita 12" -> <<"c","i","t","a"," ","1","2">>
      [] s = "CC 12" -> <<"C","C"," ","1","2">>
      [] s = "Sura, Derma" -> <<"S","u","r","a",","," ","D","e","r","m","a">>
      \* vocabularies of the classifier and of the document handler
      [] s = "hola" -> <<"h","o","l","a">>
      [] s = "buenos días" -> <<"b","u","e","n","o","s"," ","d","í","a","s">>
      [] s = "buenas tardes" -> <<"b","u","e","n","a","s"," ","t","a","r","d","e","s">>
      [] s = "buenas noches" -> <<"b","u","e","n","a","s"," ","n","o","c","h","e","s">>
      [] s = "hi" -> <<"h","i">>
      [] s = "hey" -> <<"h","e","y">>
      [] s = "saludos" -> <<"s","a","l","u","d","o","s">>
      [] s = "agendar" -> <<"a","g","e","n","d","a","r">>
      [] s = "reservar" -> <<"r","e","s","e","r","v","a","r">>
      [] s = "programar" -> <<"p","r","o","g","r","a","m","a","r">>
      [] s = "turno" -> <<"t","u","r","n","o">>
      [] s = "consulta" -> <<"c","o","n","s","u","l","t","a">>
      [] s = "sí" -> <<"s","í">>
      [] s = "claro" -> <<"c","l","a","r","o">>
      [] s = "por favor" -> <<"p","o","r"," ","f","a","v","o","r">>
      [] s = "me gustaría" -> <<"m","e"," ","g","u","s","t","a","r","í","a">>
      [] s = "afirmativo" -> <<"a","f","i","r","m","a","t","i","v","o">>
      [] s = "dale" -> <<"d","a","l","e">>
      [] s = "quiero" -> <<"q","u","i","e","r","o">>
      [] s = "necesito" -> <<"n","e","c","e","s","i","t","o">>
      \* values the services return
      [] s = "unknown" -> <<"u","n","k","n","o","w","n">>
      [] s = "Unknown" -> <<"U","n","k","n","o","w","n">>
      [] s = "CC" -> <<"C","C">>
      [] s = "12" -> <<"1","2">>
      [] s = "doce" -> <<"d","o","c","e">>
      [] s = "Sura" -> <<"S","u","r","a">>
      [] s = "Sanitas" -> <<"S","a","n","i","t","a","s">>
      [] s = "Derma" -> <<"D","e","r","m","a">>
      [] s = "Derma General" -> <<"D","e","r","m","a"," ","G","e","n","e","r","a","l">>
      [] s = " " -> <<" ">>
      [] s = "saludo" -> <<"s","a","l","u","d","o">>
      [] s = "agendar_cita" -> <<"a","g","e","n","d","a","r","_","c","i","t","a">>
      [] s = "otro" -> <<"o","t","r","o">>
      [] s = " Saludo " -> <<" ","S","a","l","u","d","o"," ">>
      [] s = "no se" -> <<"n","o"," ","s","e">>

\* str.lower() on one character
LowerChar(c) ==
    CASE c = "A" -> "a" [] c = "C" -> "c" [] c = "D" -> "d" [] c = "G" -> "g"
      [] c = "H" -> "h" [] c = "S" -> "s" [] c = "U" -> "u"
      [] OTHER -> c

\* str.lower()
Lower(t) == [i \in 1..Len(t) |-> LowerChar(t[i])]

\* char.isdigit()
IsDigit(c) == c \in {"0","1","2","3","4","5","6","7","8","9"}

\* any(char.isdigit() for char in t)
HasDigit(t) == \E i \in 1..Len(t) : IsDigit(t[i])

\* Python's `sub in t` on strings
Contains(sub, t) ==
    \/ Len(sub) = 0
    \/ \E i \in 1..Len(t) :
          /\ i + Len(sub) - 1 <= Len(t)
          /\ SubSeq(t, i, i + Len(sub) - 1) = sub

\* any(tok in t for tok in vocabulary)
ContainsAny(vocabulary, t) ==
    \E k \in 1..Len(vocabulary) : Contains(Chars(vocabulary[k]), t)

IsSpace(c) == c = " "

\* str.strip() != ""
StripNonEmpty(t) == \E i \in 1..Len(t) : ~IsSpace(t[i])

\* str.strip()
RECURSIVE StripLeft(_)
StripLeft(t) == IF t # <<>> /\ IsSpace(Head(t)) THEN StripLeft(Tail(t)) ELSE t
RECURSIVE StripRight(_)
StripRight(t) ==
    IF t # <<>> /\ IsSpace(t[Len(t)]) THEN StripRight(SubSeq(t, 1, Len(t) - 1)) ELSE t
Strip(t) == StripRight(StripLeft(t))

\* str.split(): the whitespace-delimited tokens
RECURSIVE SplitFrom(_, _, _)
SplitFrom(t, i, word) ==
    IF i > Len(t)
    THEN IF word = <<>> THEN <<>> ELSE <<word>>
    ELSE IF IsSpace(t[i])
         THEN (IF word = <<>> THEN <<>> ELSE <<word>>) \o SplitFrom(t, i + 1, <<>>)
         ELSE SplitFrom(t, i + 1, Append(word, t[i]))
Split(t) == SplitFrom(t, 1, <<>>)

\* any(word in mensaje_lower for word in value.lower().split())
AnyTokenIn(value, mensaje_lower) ==
    LET words == Split(Lower(value))
    IN  \E k \in 1..Len(words) : Contains(words[k], mensaje_lower)

(***************************************************************************)
(* Messages.  A message is its class (HumanMessage / AIMessage) and its    *)
(* content; the content of an f-string reply is its template and the       *)
(* values formatted into it.                                               *)
(***************************************************************************)
HumanMessage(text) == [type |-> "human", content |-> text, args |-> <<>>]
AIMessage(template, values) == [type |-> "ai", content |-> template, args |-> values]

initial_greeting == "INITIAL_GREETING"        \* main.py 50-54
SaludoReply == "SALUDO_REPLY"                 \* medical_agent.py 141-145
DocPrompt == "DOC_PROMPT"                     \* 176-179
DocConfirm == "DOC_CONFIRM"                   \* 204-209, with type and number
DocReprompt == "DOC_REPROMPT"                 \* 220-224 and 232-236 (same text)
DocAlready == "DOC_ALREADY"                   \* 244-247
CitaConfirm == "CITA_CONFIRM"                 \* 290-298, with document, eps, specialty
CitaMissing == "CITA_MISSING"                 \* 316, 320-323, with the missing fields
CitaUnidentified == "CITA_UNIDENTIFIED"       \* 318, 320-323
CitaError == "CITA_ERROR"                     \* 331-335
OtroReply == "OTRO_REPLY"                     \* 351-354

(***************************************************************************)
(* Routers                                                                 *)
(***************************************************************************)
\* Mutant: the completion test placed before the intent test.
_route_entry_completion_first(s) ==
    IF Truthy(s.document_number) /\ Truthy(s.eps) /\ Truthy(s.medical_specialty)
    THEN "finalizar_conversacion"
    ELSE IF ~Truthy(s.intent) THEN "clasificar_intencion"
    ELSE IF Truthy(s.document_number) /\ ~Truthy(s.eps) THEN "procesar_cita"
    ELSE IF s.intent = "agendar_cita" /\ ~Truthy(s.document_number)
         THEN "procesar_documento"
    ELSE "clasificar_intencion"

\* Mutant: completion read from the stage label instead of the fields.
_route_entry_by_stage(s) ==
    IF ~Truthy(s.intent) THEN "clasificar_intencion"
    ELSE IF s.conversation_stage = "completed" THEN "finalizar_conversacion"
    ELSE IF Truthy(s.document_number) /\ ~Truthy(s.eps) THEN "procesar_cita"
    ELSE IF s.intent = "agendar_cita" /\ ~Truthy(s.document_number)
         THEN "procesar_documento"
    ELSE "clasificar_intencion"

\* Mutant: a conversation without a document is classified again every turn.
_route_entry_reclassifies(s) ==
    IF ~Truthy(s.intent) THEN "clasificar_intencion"
    ELSE IF Truthy(s.document_number) /\ Truthy(s.eps) /\ Truthy(s.medical_specialty)
         THEN "finalizar_conversacion"
    ELSE IF Truthy(s.document_number) /\ ~Truthy(s.eps) THEN "procesar_cita"
    ELSE "clasificar_intencion"

\* Mutant: a conversation with a document and no eps goes back to the
\* Document Collection Handler.
_route_entry_document_again(s) ==
    IF ~Truthy(s.intent) THEN "clasificar_intencion"
    ELSE IF Truthy(s.document_number) /\ Truthy(s.eps) /\ Truthy(s.medical_specialty)
         THEN "finalizar_conversacion"
    ELSE IF s.intent = "agendar_cita" /\ ~Truthy(s.eps)
         THEN "procesar_documento"
    ELSE "clasificar_intencion"

_route_entry(s) ==
    IF ~Truthy(s.intent) THEN "clasificar_intencion"
    ELSE IF Truthy(s.document_number) /\ Truthy(s.eps) /\ Truthy(s.medical_specialty)
         THEN "finalizar_conversacion"
    ELSE IF Truthy(s.document_number) /\ ~Truthy(s.eps) THEN "procesar_cita"
    ELSE IF s.intent = "agendar_cita" /\ ~Truthy(s.document_number)
         THEN "procesar_documento"
    ELSE "clasificar_intencion"

\* Mutant: the greeting stage keeps an off-topic turn in the greeting handler.
_route_after_classification_by_stage(s) ==
    IF s.intent = "saludo" THEN "procesar_saludo"
    ELSE IF s.intent = "agendar_cita" THEN "procesar_documento"
    ELSE IF s.conversation_stage = "greeting" THEN "procesar_saludo"
    ELSE "manejar_otro_tema"

\* Mutant: the greeting and the fallback branches exchanged.
_route_after_classification_swapped(s) ==
    IF s.intent = "saludo" THEN "manejar_otro_tema"
    ELSE IF s.intent = "agendar_cita" THEN "procesar_documento"
    ELSE "procesar_saludo"

_route_after_classification(s) ==
    IF s.intent = "saludo" THEN "procesar_saludo"
    ELSE IF s.intent = "agendar_cita" THEN "procesar_documento"
    ELSE "manejar_otro_tema"

(***************************************************************************)
(* Intent classifier                                                       *)
(***************************************************************************)
saludos == <<"hola", "buenos días", "buenas tardes", "buenas noches", "hi", "hey", "saludos">>
cita_keywords == <<"cita", "agendar", "reservar", "programar", "turno", "consulta">>
afirmativas == <<"si", "sí", "claro", "por favor", "me gustaría", "afirmativo", "dale">>
IntentLabels == {"saludo", "agendar_cita", "otro"}

\* state["messages"][-1].content
LastContent(s) == s.messages[Len(s.messages)].content

\* Which rule of the if/elif chain decides (4 = the text-generation service).
ClassifierRule(s) ==
    LET m == Lower(Chars(LastContent(s)))
    IN  IF s.conversation_stage = "greeting" /\ ContainsAny(afirmativas, m) THEN 1
        ELSE IF ContainsAny(saludos, m) THEN 2
        ELSE IF ContainsAny(cita_keywords, m) THEN 3
        ELSE 4

\* llm_intent = response.content.strip().lower(), kept only if it is a label
LlmIntent(content) ==
    LET t == Lower(Strip(Chars(content)))
    IN  IF \E l \in IntentLabels : Chars(l) = t
        THEN CHOOSE l \in IntentLabels : Chars(l) = t
        ELSE "otro"

\* Mutant: the affirmative after a greeting tested last and taken as a greeting.
ClassifiedIntent_affirmative_last(s, r) ==
    LET m == Lower(Chars(s.messages[Len(s.messages)].content))
    IN  IF \E k \in 1..Len(saludos) : Contains(Chars(saludos[k]), m)
        THEN IF ContainsAny(cita_keywords, m) THEN "agendar_cita" ELSE "saludo"
        ELSE IF ContainsAny(cita_keywords, m) THEN "agendar_cita"
             ELSE IF s.conversation_stage = "greeting" /\ ContainsAny(afirmativas, m)
                  THEN "saludo"
                  ELSE LlmIntent(r.content)

\* Mutant: the greeting rule tested before the affirmative-after-greeting rule.
ClassifiedIntent_greeting_first(s, r) ==
    LET m == Lower(Chars(LastContent(s)))
    IN  IF ContainsAny(saludos, m)
        THEN IF ContainsAny(cita_keywords, m) THEN "agendar_cita" ELSE "saludo"
        ELSE IF s.conversation_stage = "greeting" /\ ContainsAny(afirmativas, m)
             THEN "agendar_cita"
             ELSE IF ContainsAny(cita_keywords, m) THEN "agendar_cita"
                  ELSE LlmIntent(r.content)

\* The label the classifier computes (the if/elif chain of lines 107-133);
\* r is the service's response, read only in the last branch.
ClassifiedIntent(s, r) ==
    LET m == Lower(Chars(LastContent(s)))
    IN  IF s.conversation_stage = "greeting" /\ ContainsAny(afirmativas, m)
        THEN "agendar_cita"
        ELSE IF ContainsAny(saludos, m)
             THEN IF ContainsAny(cita_keywords, m) THEN "agendar_cita" ELSE "saludo"
             ELSE IF ContainsAny(cita_keywords, m) THEN "agendar_cita"
                  ELSE LlmIntent(r.content)

\* llm.invoke raised: nothing in _clasificar_intencion catches it.
ClassifierRaises(s, r) == ClassifierRule(s) = 4 /\ r.raises

\* new_state = {**state, "intent": intent}
_clasificar_intencion(s, r) == [s EXCEPT !.intent = ClassifiedIntent(s, r)]

(***************************************************************************)
(* Handlers.  Each is the function from the node's input state (and the    *)
(* response x of the structured-output call, when the node makes one) to   *)
(* the state the node returns.                                             *)
(***************************************************************************)
\* Mutant: the reply replaces the message list instead of extending it.
Reply_replaces(s, template, values) == <<AIMessage(template, values)>>

Reply(s, template, values) == Append(s.messages, AIMessage(template, values))

_procesar_saludo(s) ==
    [s EXCEPT !.conversation_stage = "greeting",
              !.messages = Reply(s, SaludoReply, <<>>)]

keywords_sin_documento == <<"agendar", "cita", "quiero", "necesito">>
afirmativas_simples == <<"si", "sí", "claro", "por favor", "me gustaría", "afirmativo", "dale">>

\* Mutant: the affirmative-after-greeting disjunct dropped.
DocAsksFirst_keywords_only(s) ==
    LET last_user_message == Chars(LastContent(s))
        mensaje_lower == Lower(last_user_message)
    IN  ContainsAny(<<"agendar", "cita", "quiero", "necesito">>, mensaje_lower)
        /\ ~HasDigit(last_user_message)

\* The condition of lines 172-173: ask for the document without extracting.
DocAsksFirst(s) ==
    LET last_user_message == Chars(LastContent(s))
        mensaje_lower == Lower(last_user_message)
    IN  \/ (s.conversation_stage = "greeting" /\ ContainsAny(afirmativas_simples, mensaje_lower))
        \/ (ContainsAny(keywords_sin_documento, mensaje_lower) /\ ~HasDigit(last_user_message))

\* The node calls structured_llm_doc.invoke (line 190).
DocCallsExtractor(s) == ~Truthy(s.document_number) /\ ~DocAsksFirst(s)

\* Mutant: the digit test of line 202 dropped.
DocValid_no_digit_check(x) ==
    /\ Lower(Chars(x.document_type)) # Chars("unknown")
    /\ Lower(Chars(x.document_number)) # Chars("unknown")

\* The validation of lines 200-202.
DocValid(x) ==
    /\ Lower(Chars(x.document_type)) # Chars("unknown")
    /\ Lower(Chars(x.document_number)) # Chars("unknown")
    /\ HasDigit(Chars(x.document_number))

\* Mutant: the accepted extraction stores the number but not the type.
_procesar_documento_number_only(s, x) ==
    IF ~Truthy(s.document_number)
    THEN IF DocAsksFirst(s)
         THEN [s EXCEPT !.conversation_stage = "requesting_document",
                        !.messages = Reply(s, DocPrompt, <<>>),
                        !.intent = "agendar_cita"]
         ELSE IF x.raises
              THEN [s EXCEPT !.conversation_stage = "requesting_document",
                             !.messages = Reply(s, DocReprompt, <<>>)]
              ELSE IF DocValid(x)
                   THEN [s EXCEPT !.document_number = x.document_number,
                                  !.conversation_stage = "collecting_document",
                                  !.messages = Reply(s, DocConfirm,
                                                     <<x.document_type, x.document_number>>)]
                   ELSE [s EXCEPT !.conversation_stage = "requesting_document",
                                  !.messages = Reply(s, DocReprompt, <<>>)]
    ELSE [s EXCEPT !.conversation_stage = "requesting_appointment_data",
                   !.messages = Reply(s, DocAlready, <<>>)]

_procesar_documento(s, x) ==
    IF ~Truthy(s.document_number)
    THEN IF DocAsksFirst(s)
         THEN [s EXCEPT !.conversation_stage = "requesting_document",
                        !.messages = Reply(s, DocPrompt, <<>>),
                        !.intent = "agendar_cita"]
         ELSE IF x.raises
              THEN [s EXCEPT !.conversation_stage = "requesting_document",
                             !.messages = Reply(s, DocReprompt, <<>>)]
              ELSE IF DocValid(x)
                   THEN [s EXCEPT !.document_type = x.document_type,
                                  !.document_number = x.document_number,
                                  !.conversation_stage = "collecting_document",
                                  !.messages = Reply(s, DocConfirm,
                                                     <<x.document_type, x.document_number>>)]
                   ELSE [s EXCEPT !.conversation_stage = "requesting_document",
                                  !.messages = Reply(s, DocReprompt, <<>>)]
    ELSE [s EXCEPT !.conversation_stage = "requesting_appointment_data",
                   !.messages = Reply(s, DocAlready, <<>>)]

\* Mutant: the token test of lines 282 and 286 dropped.
FieldFound_no_token_check(value, mensaje_lower) ==
    /\ Lower(Chars(value)) # Chars("unknown")
    /\ StripNonEmpty(Chars(value))

\* Lines 280-286: a field is found if it is not "unknown", not blank, and one
\* of its tokens occurs in the lowercased message.
FieldFound(value, mensaje_lower) ==
    /\ Lower(Chars(value)) # Chars("unknown")
    /\ StripNonEmpty(Chars(value))
    /\ AnyTokenIn(Chars(value), mensaje_lower)

eps_found(s, x) == FieldFound(x.eps, Lower(Chars(LastContent(s))))
specialty_found(s, x) == FieldFound(x.medical_specialty, Lower(Chars(LastContent(s))))

missing_info(s, x) ==
    (IF ~eps_found(s, x) THEN <<"tu EPS">> ELSE <<>>)
    \o (IF ~specialty_found(s, x) THEN <<"la especialidad médica">> ELSE <<>>)

\* Mutant: the except branch also moves the stage to collecting_cita.
_procesar_cita_error_sets_stage(s, x) ==
    IF x.raises
    THEN [s EXCEPT !.conversation_stage = "collecting_cita",
                   !.messages = Reply(s, CitaError, <<>>)]
    ELSE IF eps_found(s, x) /\ specialty_found(s, x)
         THEN [s EXCEPT !.eps = x.eps,
                        !.medical_specialty = x.medical_specialty,
                        !.conversation_stage = "completed",
                        !.messages = Reply(s, CitaConfirm,
                                           <<s.document_type, s.document_number,
                                             x.eps, x.medical_specialty>>)]
         ELSE IF missing_info(s, x) # <<>>
              THEN [s EXCEPT !.messages = Reply(s, CitaMissing, missing_info(s, x))]
              ELSE [s EXCEPT !.messages = Reply(s, CitaUnidentified, <<>>)]

\* Mutant: the both-found branch stores the fields but leaves the stage.
_procesar_cita_keeps_stage(s, x) ==
    IF x.raises
    THEN [s EXCEPT !.messages = Reply(s, CitaError, <<>>)]
    ELSE IF eps_found(s, x) /\ specialty_found(s, x)
         THEN [s EXCEPT !.eps = x.eps,
                        !.medical_specialty = x.medical_specialty,
                        !.messages = Reply(s, CitaConfirm,
                                           <<s.document_type, s.document_number,
                                             x.eps, x.medical_specialty>>)]
         ELSE IF missing_info(s, x) # <<>>
              THEN [s EXCEPT !.messages = Reply(s, CitaMissing, missing_info(s, x))]
              ELSE [s EXCEPT !.messages = Reply(s, CitaUnidentified, <<>>)]

\* Mutant: when only one field is found, that field is stored.
_procesar_cita_stores_partial(s, x) ==
    IF x.raises
    THEN [s EXCEPT !.messages = Reply(s, CitaError, <<>>)]
    ELSE IF eps_found(s, x) /\ specialty_found(s, x)
         THEN [s EXCEPT !.eps = x.eps,
                        !.medical_specialty = x.medical_specialty,
                        !.conversation_stage = "completed",
                        !.messages = Reply(s, CitaConfirm,
                                           <<s.document_type, s.document_number,
                                             x.eps, x.medical_specialty>>)]
         ELSE [s EXCEPT !.eps = IF eps_found(s, x) THEN x.eps ELSE @,
                        !.medical_specialty =
                            IF specialty_found(s, x) THEN x.medical_specialty ELSE @,
                        !.messages = Reply(s, CitaMissing, missing_info(s, x))]

\* Mutant: the except branch also discards the stored document.
_procesar_cita_error_resets_document(s, x) ==
    IF x.raises
    THEN [s EXCEPT !.document_type = None,
                   !.document_number = None,
                   !.messages = Reply(s, CitaError, <<>>)]
    ELSE IF eps_found(s, x) /\ specialty_found(s, x)
         THEN [s EXCEPT !.eps = x.eps,
                        !.medical_specialty = x.medical_specialty,
                        !.conversation_stage = "completed",
                        !.messages = Reply(s, CitaConfirm,
                                           <<s.document_type, s.document_number,
                                             x.eps, x.medical_specialty>>)]
         ELSE IF missing_info(s, x) # <<>>
              THEN [s EXCEPT !.messages = Reply(s, CitaMissing, missing_info(s, x))]
              ELSE [s EXCEPT !.messages = Reply(s, CitaUnidentified, <<>>)]

_procesar_cita(s, x) ==
    LET found_eps == eps_found(s, x)
        found_specialty == specialty_found(s, x)
        missing == missing_info(s, x)
    IN  IF x.raises
        THEN [s EXCEPT !.messages = Reply(s, CitaError, <<>>)]
        ELSE IF found_eps /\ found_specialty
             THEN [s EXCEPT !.eps = x.eps,
                            !.medical_specialty = x.medical_specialty,
                            !.conversation_stage = "completed",
                            !.messages = Reply(s, CitaConfirm,
                                               <<s.document_type, s.document_number,
                                                 x.eps, x.medical_specialty>>)]
             ELSE IF missing # <<>>
                  THEN [s EXCEPT !.messages = Reply(s, CitaMissing, missing)]
                  ELSE [s EXCEPT !.messages = Reply(s, CitaUnidentified, <<>>)]

\* Mutant: finalize marks the conversation completed.
_finalizar_conversacion_marks_completed(s) == [s EXCEPT !.conversation_stage = "completed"]

_finalizar_conversacion(s) == s

\* Mutant: the off-topic reply also moves the stage back to greeting.
_manejar_otro_tema_sets_stage(s) ==
    [s EXCEPT !.conversation_stage = "greeting",
              !.messages = Reply(s, OtroReply, <<>>)]

_manejar_otro_tema(s) == [s EXCEPT !.messages = Reply(s, OtroReply, <<>>)]

is_conversation_complete(s) ==
    s.document_number # None /\ s.eps # None /\ s.medical_specialty # None

(***************************************************************************)
(* The store                                                               *)
(***************************************************************************)
\* Mutant: the status is completed as soon as the document is stored.
Status_on_document(s) == IF Truthy(s.document_number) THEN "completed" ELSE "active"

\* Line 67
Status(s) == IF Truthy(s.eps) /\ Truthy(s.medical_specialty) THEN "completed" ELSE "active"

ConversationRow(s) ==
    [conversation_id |-> s.conversation_id, intent |-> s.intent,
     document_type |-> s.document_type, document_number |-> s.document_number,
     eps |-> s.eps, medical_specialty |-> s.medical_specialty,
     status |-> Status(s), conversation_stage |-> s.conversation_stage]

\* Line 94 and the INSERT of lines 95-103
MessageRow(s, msg) ==
    [conversation_id |-> s.conversation_id,
     message_type |-> IF msg.type = "human" THEN "human" ELSE "ai",
     content |-> msg.content, args |-> msg.args]

\* SELECT ... WHERE conversation_id # id, in insertion order
RECURSIVE OtherRows(_, _)
OtherRows(rows, id) ==
    IF rows = <<>> THEN <<>>
    ELSE (IF Head(rows).conversation_id = id THEN <<>> ELSE <<Head(rows)>>)
         \o OtherRows(Tail(rows), id)

\* Mutant: the row is written, the messages are not replaced.
save_conversation_row_only(d, s, ok) ==
    IF ok
    THEN [conversations |->
              {r \in d.conversations : r.conversation_id # s.conversation_id}
              \cup {[conversation_id |-> s.conversation_id, intent |-> s.intent,
                     document_type |-> s.document_type,
                     document_number |-> s.document_number,
                     eps |-> s.eps, medical_specialty |-> s.medical_specialty,
                     status |-> "active", conversation_stage |-> s.conversation_stage]},
          messages |-> d.messages]
    ELSE d

\* Mutant: the row is replaced, the messages are inserted without the DELETE.
save_conversation_appends(d, s, ok) ==
    IF ok
    THEN [conversations |->
              {r \in d.conversations : r.conversation_id # s.conversation_id}
              \cup {ConversationRow(s)},
          messages |->
              d.messages
              \o [i \in 1..Len(s.messages) |-> MessageRow(s, s.messages[i])]]
    ELSE d

\* save_conversation: INSERT OR REPLACE of the row, DELETE of the messages of
\* the conversation, INSERT of all its messages; on an exception nothing is
\* committed and False is returned.
save_conversation(d, s, ok) ==
    IF ok
    THEN [conversations |->
              {r \in d.conversations : r.conversation_id # s.conversation_id}
              \cup {ConversationRow(s)},
          messages |->
              OtherRows(d.messages, s.conversation_id)
              \o [i \in 1..Len(s.messages) |-> MessageRow(s, s.messages[i])]]
    ELSE d

(***************************************************************************)
(* The environment: what the user types and what the services answer.      *)
(***************************************************************************)
UserInputs == {"Hola", "si", "cita", "cita 12", "CC 12", "Sura, Derma"}

\* Messages in which a greeting comes with an affirmative or with an
\* appointment keyword (single calls only).
MixedInputs == {"Hola si", "Hola cita"}

\* response.content of the classification call, or the call raising
LLMResponses ==
    {[raises |-> TRUE, content |-> ""]}
    \cup {[raises |-> FALSE, content |-> c] :
             c \in {"saludo", "agendar_cita", "otro", " Saludo ", "no se"}}

\* IdentificacionPaciente returned by the structured-output call, or the call raising
DocResponses ==
    {[raises |-> TRUE, document_type |-> "", document_number |-> ""]}
    \cup {[raises |-> FALSE, document_type |-> p[1], document_number |-> p[2]] :
             p \in {<<"CC", "12">>, <<"CC", "doce">>, <<"CC", "Unknown">>,
                    <<"Unknown", "12">>, <<"unknown", "unknown">>}}

\* DatosCita returned by the structured-output call, or the call raising
CitaResponses ==
    {[raises |-> TRUE, eps |-> "", medical_specialty |-> ""]}
    \cup {[raises |-> FALSE, eps |-> p[1], medical_specialty |-> p[2]] :
             p \in {<<"Sura", "Derma">>, <<"Sura", "Derma General">>,
                    <<"Sanitas", "Derma">>, <<" ", "Derma">>,
                    <<"Sura", "unknown">>, <<"unknown", "unknown">>}}

NoCall == [raises |-> FALSE]

(***************************************************************************)
(* The graph                                                               *)
(***************************************************************************)
HandlerNodes == {"procesar_saludo", "procesar_documento", "procesar_cita",
                 "finalizar_conversacion", "manejar_otro_tema"}

\* The node's function applied to the state (lines 34-39 bind names to methods).
RunNode(node, s, x) ==
    CASE node = "procesar_saludo" -> _procesar_saludo(s)
      [] node = "procesar_documento" -> _procesar_documento(s, x)
      [] node = "procesar_cita" -> _procesar_cita(s, x)
      [] node = "finalizar_conversacion" -> _finalizar_conversacion(s)
      [] node = "manejar_otro_tema" -> _manejar_otro_tema(s)

\* Whether the node makes a structured-output call on s.
CallsExtractor(node, s) ==
    \/ node = "procesar_documento" /\ DocCallsExtractor(s)
    \/ node = "procesar_cita"

ExtractorResponses(node, s) ==
    IF node = "procesar_documento" /\ DocCallsExtractor(s) THEN DocResponses
    ELSE IF node = "procesar_cita" THEN CitaResponses
    ELSE {NoCall}

\* The nodes app.invoke runs on s when the classification call answers r:
\* the entry node, then the node the conditional edge selects, then END.
NodesRun(s, r) ==
    IF _route_entry(s) = "clasificar_intencion"
    THEN IF ClassifierRaises(s, r)
         THEN <<"clasificar_intencion">>
         ELSE <<"clasificar_intencion",
                _route_after_classification(_clasificar_intencion(s, r))>>
    ELSE <<_route_entry(s)>>

SaveOutcomes == IF db_faults > 0 THEN {TRUE, FALSE} ELSE {TRUE}

\* mostrar_estadisticas (main.py 16-32) reads the store through
\* get_conversation_stats and get_recent_conversations (db_manager.py
\* 112-148), which have no try/except: TRUE when it returns, FALSE when the
\* store raises and the exception leaves mostrar_estadisticas.
StatsOutcomes == IF db_faults > 0 THEN {TRUE, FALSE} ELSE {TRUE}

(***************************************************************************)
(* Initial states                                                          *)
(***************************************************************************)
ConversationId == "c1"

\* main.py 56-59: only conversation_id and messages are present.
SeedState ==
    [conversation_id |-> ConversationId, intent |-> None, document_type |-> None,
     document_number |-> None, eps |-> None, medical_specialty |-> None,
     conversation_stage |-> None,
     messages |-> <<AIMessage(initial_greeting, <<>>)>>]

NothingShown == [kind |-> "none", content |-> "", args |-> <<>>]

InitTurn ==
    /\ pc = "input"
    /\ trace = <<>>
    /\ decisions = <<>>
    /\ saves = 0
    /\ llm_result = "not_called"
    /\ extractor = "not_called"
    /\ shown = NothingShown
    /\ db = [conversations |-> {}, messages |-> <<>>]
    /\ turns = 0

\* A session of main(): the seed state, the store never failing.
Init ==
    /\ current_state = SeedState
    /\ state = current_state
    /\ InitTurn
    /\ db_faults = 0
    /\ limit = MaxTurns
    /\ inputs = UserInputs

\* The store as an earlier session of main() left it: the row and the two
\* messages of another conversation_id (the table is shared by all sessions).
OtherConversationId == "c0"

PriorStore ==
    [conversations |->
         {[conversation_id |-> OtherConversationId, intent |-> "agendar_cita",
           document_type |-> "CC", document_number |-> "12",
           eps |-> "Sura", medical_specialty |-> "Derma",
           status |-> "completed", conversation_stage |-> "completed"]},
     messages |->
         <<[conversation_id |-> OtherConversationId, message_type |-> "ai",
            content |-> initial_greeting, args |-> <<>>],
           [conversation_id |-> OtherConversationId, message_type |-> "human",
            content |-> "cita", args |-> <<>>]>>]

\* A session of main() on a store that already holds another conversation and
\* whose writes may fail up to MaxFaults times (save_conversation lines 106-110).
InitStore ==
    /\ current_state = SeedState
    /\ state = current_state
    /\ pc = "input"
    /\ trace = <<>>
    /\ decisions = <<>>
    /\ saves = 0
    /\ llm_result = "not_called"
    /\ extractor = "not_called"
    /\ shown = NothingShown
    /\ db = PriorStore
    /\ turns = 0
    /\ db_faults = MaxFaults
    /\ limit = StoreTurns
    /\ inputs = {"cita", "cita 12", "CC 12", "Sura, Derma"}

\* The AgentState values (src/models/schemas.py 30-39, with the stages the
\* handlers write), for one process_conversation call on any of them.
Stages == {None, "greeting", "requesting_document", "collecting_document",
           "requesting_appointment_data", "collecting_cita", "completed"}

AnyStates ==
    {[conversation_id |-> ConversationId, intent |-> i, document_type |-> dt,
      document_number |-> dn, eps |-> e, medical_specialty |-> ms,
      conversation_stage |-> st,
      messages |-> <<AIMessage(initial_greeting, <<>>)>>] :
        i \in {None} \cup IntentLabels, dt \in {None, "CC"}, dn \in {None, "", "12"},
        e \in {None, "", "Sura"}, ms \in {None, "Derma"}, st \in Stages}

InitAny ==
    /\ current_state \in AnyStates
    /\ state = current_state
    /\ InitTurn
    /\ db_faults = 0
    /\ limit = 1
    /\ inputs = UserInputs \cup MixedInputs

(***************************************************************************)
(* Actions                                                                 *)
(***************************************************************************)
\* main.py 68-92: a free-text input starts a turn; the message is appended in
\* place to current_state, which is then handed to the graph.
ReadInput ==
    /\ pc = "input"
    /\ turns < limit
    /\ \E text \in inputs :
          current_state' = [current_state EXCEPT
                               !.messages = Append(@, HumanMessage(text))]
    /\ state' = current_state'
    /\ pc' = "entry"
    /\ trace' = <<>>
    /\ decisions' = <<>>
    /\ saves' = 0
    /\ llm_result' = "not_called"
    /\ extractor' = "not_called"
    /\ shown' = NothingShown
    /\ turns' = turns + 1
    /\ UNCHANGED <<db, db_faults, limit, inputs>>

\* main.py 70-73: salir / exit / quit; the statistics are shown before the
\* break, and an exception of theirs is caught at 117-120 (the loop goes on).
Quit ==
    /\ pc = "input"
    /\ \E ok \in StatsOutcomes :
          /\ pc' = IF ok THEN "exited" ELSE "error"
          /\ db_faults' = IF ok THEN db_faults ELSE db_faults - 1
    /\ UNCHANGED <<current_state, state, trace, decisions, saves, llm_result,
                   extractor, shown, db, turns, limit, inputs>>

\* The conditional entry point (lines 42-50)
RouteEntry ==
    /\ pc = "entry"
    /\ pc' = _route_entry(state)
    /\ decisions' = Append(decisions, <<"_route_entry", _route_entry(state)>>)
    /\ UNCHANGED <<current_state, state, trace, saves, llm_result, extractor,
                   shown, db, db_faults, turns, limit, inputs>>

\* Node clasificar_intencion and its conditional edges (lines 53-61, 93-137)
ClasificarIntencion ==
    /\ pc = "clasificar_intencion"
    /\ trace' = Append(trace, "clasificar_intencion")
    /\ \E r \in (IF ClassifierRule(state) = 4 THEN LLMResponses ELSE {NoCall}), ok \in SaveOutcomes :
          IF ClassifierRaises(state, r)
          THEN /\ llm_result' = "raised"
               /\ pc' = "error"
               /\ UNCHANGED <<state, db, db_faults, saves, decisions>>
          ELSE LET new_state == _clasificar_intencion(state, r)
               IN  /\ llm_result' =
                         IF ClassifierRule(state) # 4 THEN "not_called"
                         ELSE IF \E l \in IntentLabels : Chars(l) = Lower(Strip(Chars(r.content)))
                              THEN "valid" ELSE "invalid"
                   /\ state' = new_state
                   /\ db' = save_conversation(db, new_state, ok)
                   /\ db_faults' = IF ok THEN db_faults ELSE db_faults - 1
                   /\ saves' = saves + 1
                   /\ decisions' = Append(decisions,
                          <<"_route_after_classification", _route_after_classification(new_state)>>)
                   /\ pc' = _route_after_classification(new_state)
    /\ UNCHANGED <<current_state, extractor, shown, turns, limit, inputs>>

\* Mutant: an exception of the store leaves save_conversation and the graph;
\* the handler's new state is lost.
RunHandler_save_raises ==
    /\ pc \in HandlerNodes
    /\ trace' = Append(trace, pc)
    /\ \E x \in ExtractorResponses(pc, state), ok \in SaveOutcomes :
          LET new_state == RunNode(pc, state, x)
          IN  /\ extractor' = IF ~CallsExtractor(pc, state) THEN "not_called"
                              ELSE IF x.raises THEN "raised" ELSE "returned"
              /\ state' = IF ok THEN new_state ELSE state
              /\ db' = save_conversation(db, new_state, ok)
              /\ db_faults' = IF ok THEN db_faults ELSE db_faults - 1
              /\ pc' = IF ok THEN "END" ELSE "error"
    /\ saves' = saves + 1
    /\ UNCHANGED <<current_state, decisions, llm_result, shown, turns, limit, inputs>>

\* Any other node, followed by its edge to END (lines 63-67)
RunHandler ==
    /\ pc \in HandlerNodes
    /\ trace' = Append(trace, pc)
    /\ \E x \in ExtractorResponses(pc, state), ok \in SaveOutcomes :
          LET new_state == RunNode(pc, state, x)
          IN  /\ extractor' = IF ~CallsExtractor(pc, state) THEN "not_called"
                              ELSE IF x.raises THEN "raised" ELSE "returned"
              /\ state' = new_state
              /\ db' = save_conversation(db, new_state, ok)
              /\ db_faults' = IF ok THEN db_faults ELSE db_faults - 1
    /\ saves' = saves + 1
    /\ pc' = "END"
    /\ UNCHANGED <<current_state, decisions, llm_result, shown, turns, limit, inputs>>

\* Mutant: the loop does not test is_conversation_complete and reads on.
EndTurn_keeps_reading ==
    /\ pc = "END"
    /\ shown' = IF Len(state.messages) > Len(current_state.messages)
                THEN [kind |-> "reply",
                      content |-> state.messages[Len(state.messages)].content,
                      args |-> state.messages[Len(state.messages)].args]
                ELSE NothingShown
    /\ current_state' = state
    /\ pc' = "input"
    /\ UNCHANGED <<state, trace, decisions, saves, llm_result, extractor, db,
                   db_faults, turns, limit, inputs>>

\* main.py 94-111: print the reply if the list grew, keep the final state,
\* and when the conversation is complete show the statistics and leave the
\* loop; an exception of the statistics is caught at 117-120 before the break.
EndTurn ==
    /\ pc = "END"
    /\ shown' = IF Len(state.messages) > Len(current_state.messages)
                THEN [kind |-> "reply",
                      content |-> state.messages[Len(state.messages)].content,
                      args |-> state.messages[Len(state.messages)].args]
                ELSE NothingShown
    /\ current_state' = state
    /\ IF is_conversation_complete(state)
       THEN \E ok \in StatsOutcomes :
               /\ pc' = IF ok THEN "done" ELSE "error"
               /\ db_faults' = IF ok THEN db_faults ELSE db_faults - 1
       ELSE /\ pc' = "input"
            /\ UNCHANGED db_faults
    /\ UNCHANGED <<state, trace, decisions, saves, llm_result, extractor, db,
                   turns, limit, inputs>>

\* main.py 117-120: an exception out of process_conversation is printed with
\* its text and the loop continues with current_state as it is.
HandleError ==
    /\ pc = "error"
    /\ shown' = [kind |-> "error", content |-> "Ocurrió un error: {e}", args |-> <<>>]
    /\ state' = current_state
    /\ pc' = "input"
    /\ UNCHANGED <<current_state, trace, decisions, saves, llm_result, extractor,
                   db, db_faults, turns, limit, inputs>>

Next ==
    \/ ReadInput
    \/ Quit
    \/ RouteEntry
    \/ ClasificarIntencion
    \/ RunHandler
    \/ EndTurn
    \/ HandleError

Spec == Init /\ [][Next]_vars

SpecAny == InitAny /\ [][Next]_vars

SpecStore == InitStore /\ [][Next]_vars

\* A session of main() whose user may type the three messages of a complete
\* appointment request (and the first one with a number in it), in any order.
InitLive ==
    /\ current_state = SeedState
    /\ state = current_state
    /\ InitTurn
    /\ db_faults = 0
    /\ limit = MaxTurns
    /\ inputs = {"cita", "cita 12", "CC 12", "Sura, Derma"}

\* The steps of a turn are straight-line code of one thread (main.py 89-111,
\* the graph's nodes): a turn that has begun goes on.  input() (main.py 68)
\* returns when the user types: weak fairness of ReadInput is the user who
\* keeps sending.  ClasificarIntencion is the one step possible exactly when
\* pc = "clasificar_intencion", RunHandler the one step possible exactly when
\* pc \in HandlerNodes, and each leaves that position: their weak fairness is
\* stated by the position being left again and again.
SpecLive ==
    /\ InitLive
    /\ [][Next]_vars
    /\ WF_vars(ReadInput)
    /\ WF_vars(RouteEntry)
    /\ WF_vars(EndTurn)
    /\ WF_vars(HandleError)
    /\ []<>(pc # "clasificar_intencion")
    /\ []<>(pc \notin HandlerNodes)

TypeOK ==
    /\ pc \in {"input", "entry", "clasificar_intencion", "END", "error", "done", "exited"}
              \cup HandlerNodes
    /\ turns \in 0..limit
    /\ saves \in 0..2

(***************************************************************************)
(* Vocabulary of the properties                                            *)
(***************************************************************************)
IsSet(v) == v # None /\ v # ""

\* A turn is in progress and entry routing has been done: current_state is
\* the state the turn started from, with the human message appended.
Routed == pc \in {"clasificar_intencion", "END", "error"} \cup HandlerNodes

EntryRoute == decisions[1][2]

AllCollected(s) == IsSet(s.document_number) /\ IsSet(s.eps) /\ IsSet(s.medical_specialty)

TurnMessage == Chars(LastContent(current_state))

(***************************************************************************)
(* C1: entry routing follows the decision table, in order: intent unset -> *)
(* classifier; else all of document_number, eps, medical_specialty set ->  *)
(* finalize; else document_number set and eps unset -> procesar_cita, and  *)
(* that turn runs neither the classifier nor the document handler; else    *)
(* intent = agendar_cita and document_number unset -> procesar_documento;  *)
(* else -> classifier.                                                     *)
(***************************************************************************)
C1_EntryDecisionTable ==
    Routed =>
        LET s == current_state
        IN  /\ ~IsSet(s.intent) => EntryRoute = "clasificar_intencion"
            /\ (IsSet(s.intent) /\ AllCollected(s)) => EntryRoute = "finalizar_conversacion"
            /\ (IsSet(s.intent) /\ IsSet(s.document_number) /\ ~IsSet(s.eps)) =>
                   /\ EntryRoute = "procesar_cita"
                   /\ pc = "END" => trace = <<"procesar_cita">>
            /\ (s.intent = "agendar_cita" /\ ~IsSet(s.document_number)) =>
                   EntryRoute = "procesar_documento"
            /\ (/\ IsSet(s.intent)
                /\ \/ (IsSet(s.document_number) /\ IsSet(s.eps) /\ ~IsSet(s.medical_specialty))
                   \/ (~IsSet(s.document_number) /\ s.intent # "agendar_cita")) =>
                   EntryRoute = "clasificar_intencion"

C1_Witness ==
    /\ pc = "END"
    /\ trace = <<"procesar_cita">>
    /\ current_state.intent = "saludo"
    /\ current_state.medical_specialty = "Derma"

(***************************************************************************)
(* C2 as stated: every state with document_number, eps and                 *)
(* medical_specialty set is routed to finalize, with no other precondition.*)
(***************************************************************************)
C2_Original ==
    (Routed /\ AllCollected(current_state)) => EntryRoute = "finalizar_conversacion"

(***************************************************************************)
(* C2 amended: every state with intent set and document_number, eps and    *)
(* medical_specialty set is routed to finalize, whatever the stage; with   *)
(* intent unset it is routed to the classifier.                            *)
(***************************************************************************)
C2_Amended ==
    (Routed /\ AllCollected(current_state)) =>
        IF IsSet(current_state.intent)
        THEN EntryRoute = "finalizar_conversacion" /\ pc \in {"finalizar_conversacion", "END"}
        ELSE EntryRoute = "clasificar_intencion"

C2_Witness ==
    /\ pc = "END"
    /\ trace = <<"finalizar_conversacion">>
    /\ current_state.conversation_stage = "greeting"
    /\ current_state.intent = "otro"

(***************************************************************************)
(* C3 as stated: two states that differ only in conversation_stage run the *)
(* same nodes on the same message with the same service responses.         *)
(***************************************************************************)
WithStage(s, stg) == [s EXCEPT !.conversation_stage = stg]

C3_Original ==
    (Routed /\ trace = <<>>) =>
        \A stg \in Stages, r \in LLMResponses :
            NodesRun(WithStage(current_state, stg), r) = NodesRun(current_state, r)

(***************************************************************************)
(* C3 amended: the two routing functions read the substantive fields only: *)
(* states that differ only in conversation_stage get the same entry route  *)
(* and, for the same classified intent, the same post-classification       *)
(* route.  The nodes run in the turn are the same too, unless the          *)
(* classifier runs on a message with an affirmative token and one of the   *)
(* two stages is greeting.  The nodes that ran are those of NodesRun.      *)
(***************************************************************************)
C3_Amended ==
    Routed =>
        /\ trace = <<>> => \A stg \in Stages :
              LET s1 == current_state
                  s2 == WithStage(current_state, stg)
              IN  /\ _route_entry(s2) = _route_entry(s1)
                  /\ _route_entry(s1) = EntryRoute
                  /\ \A i \in IntentLabels :
                        _route_after_classification([s2 EXCEPT !.intent = i])
                            = _route_after_classification([s1 EXCEPT !.intent = i])
                  /\ (\/ EntryRoute # "clasificar_intencion"
                      \/ ~ContainsAny(afirmativas, Lower(TurnMessage))
                      \/ (s1.conversation_stage # "greeting" /\ stg # "greeting")) =>
                         \A r \in LLMResponses : NodesRun(s2, r) = NodesRun(s1, r)
        /\ pc \in {"END", "error"} => \E r \in LLMResponses : trace = NodesRun(current_state, r)

C3_Witness ==
    /\ pc = "END"
    /\ current_state.conversation_stage = "greeting"
    /\ trace = <<"clasificar_intencion", "manejar_otro_tema">>
    /\ ~ContainsAny(afirmativas, Lower(TurnMessage))

(***************************************************************************)
(* C4: post-classification routing runs only right after the classifier    *)
(* and maps the fresh intent: saludo -> procesar_saludo, agendar_cita ->   *)
(* procesar_documento, anything else -> manejar_otro_tema; every other     *)
(* node ends the turn.                                                     *)
(***************************************************************************)
C4_PostClassification ==
    /\ Len(trace) <= 2
    /\ \A k \in 1..Len(trace) : trace[k] = "clasificar_intencion" => k = 1
    /\ (trace # <<>> /\ trace[Len(trace)] \in HandlerNodes) =>
           pc \in {"END", "input", "done", "exited"}
    /\ \A k \in 1..Len(decisions) :
           decisions[k][1] = "_route_after_classification" =>
               /\ k = 2
               /\ trace[1] = "clasificar_intencion"
               /\ decisions[k][2] =
                      (IF state.intent = "saludo" THEN "procesar_saludo"
                       ELSE IF state.intent = "agendar_cita" THEN "procesar_documento"
                       ELSE "manejar_otro_tema")
               /\ pc \notin HandlerNodes => (Len(trace) = 2 /\ trace[2] = decisions[k][2])
               /\ pc \in HandlerNodes => pc = decisions[k][2]
    /\ (Len(trace) = 2) => Len(decisions) = 2

C4_Witness ==
    /\ pc = "END"
    /\ trace = <<"clasificar_intencion", "procesar_saludo">>
    /\ decisions[2] = <<"_route_after_classification", "procesar_saludo">>

(***************************************************************************)
(* C5: every processed turn appends one human message and one agent        *)
(* message, so between turns the list is the seed greeting followed by     *)
(* alternating human / agent messages, one pair per turn.                  *)
(***************************************************************************)
BetweenTurns == pc \in {"input", "done", "exited"}

SeedThenPairs(msgs) ==
    /\ msgs[1] = AIMessage(initial_greeting, <<>>)
    /\ \A k \in 2..Len(msgs) : msgs[k].type = (IF k % 2 = 0 THEN "human" ELSE "ai")
    /\ Len(msgs) % 2 = 1

C5_SeedThenAlternating ==
    BetweenTurns =>
        /\ SeedThenPairs(current_state.messages)
        /\ Len(current_state.messages) = 1 + 2 * turns

(***************************************************************************)
(* C6: when the classifier's text-generation call raises or answers with   *)
(* something that is not a label, intent becomes otro, no exception leaves *)
(* the classifier and the turn goes on to the off-topic handler.           *)
(***************************************************************************)
C6_ClassifierFailsSoft ==
    (Routed /\ llm_result \in {"raised", "invalid"}) =>
        /\ pc # "error"
        /\ state.intent = "otro"
        /\ pc \in {"manejar_otro_tema", "END"}
        /\ pc = "END" => trace = <<"clasificar_intencion", "manejar_otro_tema">>

(***************************************************************************)
(* C7: what a turn shows to the user is one of the handlers' fixed         *)
(* replies, never the text of an error.                                    *)
(***************************************************************************)
HandlerReplies == {SaludoReply, DocPrompt, DocConfirm, DocReprompt, DocAlready,
                   CitaConfirm, CitaMissing, CitaUnidentified, CitaError, OtroReply}

C7_OnlyFixedReplies ==
    /\ shown.kind # "error"
    /\ (pc = "input" /\ turns > 0) => (shown.kind = "reply" /\ shown.content \in HandlerReplies)

(***************************************************************************)
(* C8 as stated: a turn makes one routing decision, runs one handler and   *)
(* makes one save_conversation call; the classifier neither changes nor    *)
(* persists the state.                                                     *)
(***************************************************************************)
HandlersRun == Cardinality({k \in 1..Len(trace) : trace[k] \in HandlerNodes})

ClassifierCompleted ==
    trace # <<>> /\ trace[1] = "clasificar_intencion" /\ llm_result # "raised"

Stored(s) ==
    /\ {r \in db.conversations : r.conversation_id = s.conversation_id} = {ConversationRow(s)}
    /\ Len(db.messages) = Len(s.messages)
    /\ \A k \in 1..Len(s.messages) :
          /\ db.messages[k].content = s.messages[k].content
          /\ db.messages[k].message_type = s.messages[k].type

SchedulingWords == <<"agendar", "cita", "quiero", "necesito">>
AffirmativeWords == <<"si", "sí", "claro", "por favor", "me gustaría", "afirmativo", "dale">>

DocumentHandlerRan == pc = "END" /\ trace[Len(trace)] = "procesar_documento"

C9_PromptWithoutExtraction ==
    (/\ DocumentHandlerRan
     /\ ~IsSet(current_state.document_number)
     /\ \/ (ContainsAny(SchedulingWords, Lower(TurnMessage)) /\ ~HasDigit(TurnMessage))
        \/ (current_state.conversation_stage = "greeting"
            /\ ContainsAny(AffirmativeWords, Lower(TurnMessage)))) =>
        /\ extractor = "not_called"
        /\ state.document_type = None
        /\ state.document_number = None
        /\ state.conversation_stage = "requesting_document"
        /\ state.intent = "agendar_cita"
        /\ state.messages = Append(current_state.messages, AIMessage(DocPrompt, <<>>))

C9_Witness ==
    /\ DocumentHandlerRan
    /\ current_state.conversation_stage = "greeting"
    /\ LastContent(current_state) = "si"
    /\ extractor = "not_called"
    /\ state.conversation_stage = "requesting_document"

(***************************************************************************)
(* C10 as stated: at stage greeting a bare affirmative is classified       *)
(* agendar_cita by the affirmative rule, routed to the document handler,   *)
(* which attempts the extraction and re-prompts with stage                 *)
(* requesting_document when no number with a digit comes back.             *)
(***************************************************************************)
BareAffirmative ==
    /\ ContainsAny(AffirmativeWords, Lower(TurnMessage))
    /\ ~HasDigit(TurnMessage)
    /\ ~ContainsAny(SchedulingWords, Lower(TurnMessage))
    /\ ~ContainsAny(<<"cita", "agendar", "reservar", "programar", "turno", "consulta">>,
                    Lower(TurnMessage))
    /\ ~ContainsAny(<<"hola", "buenos días", "buenas tardes", "buenas noches", "hi",
                      "hey", "saludos">>, Lower(TurnMessage))

AffirmativeAfterGreeting ==
    pc = "END" /\ current_state.conversation_stage = "greeting" /\ BareAffirmative

C10_Original ==
    AffirmativeAfterGreeting =>
        /\ llm_result = "not_called"
        /\ state.intent = "agendar_cita"
        /\ trace = <<"clasificar_intencion", "procesar_documento">>
        /\ extractor # "not_called"
        /\ ~IsSet(state.document_number) =>
              /\ state.conversation_stage = "requesting_document"
              /\ state.messages[Len(state.messages)] = AIMessage(DocReprompt, <<>>)

(***************************************************************************)
(* C10 amended: at stage greeting a bare affirmative is classified         *)
(* agendar_cita by the affirmative rule, without the text-generation       *)
(* service, and routed to the document handler, which does not attempt the *)
(* extraction: the turn ends with the document unset, stage                *)
(* requesting_document and the first document prompt as the reply.         *)
(***************************************************************************)
C10_Amended ==
    AffirmativeAfterGreeting =>
        /\ llm_result = "not_called"
        /\ state.intent = "agendar_cita"
        /\ decisions = << <<"_route_entry", "clasificar_intencion">>,
                          <<"_route_after_classification", "procesar_documento">> >>
        /\ trace = <<"clasificar_intencion", "procesar_documento">>
        /\ extractor = "not_called"
        /\ ~IsSet(state.document_number)
        /\ state.conversation_stage = "requesting_document"
        /\ state.messages = Append(current_state.messages, AIMessage(DocPrompt, <<>>))

C10_Witness ==
    /\ AffirmativeAfterGreeting
    /\ current_state.intent = "saludo"
    /\ state.intent = "agendar_cita"
    /\ state.conversation_stage = "requesting_document"

(***************************************************************************)
(* Vocabulary of the handler claims.  At pc = "END" the handler has        *)
(* returned: current_state is the state the turn started from (the user's  *)
(* message appended) and state is what the graph returns.                  *)
(***************************************************************************)
\* The state the handler received: the turn's state, with the intent the
\* classifier wrote when it ran first.
HandlerInput ==
    [current_state EXCEPT !.intent = IF ClassifierCompleted THEN state.intent ELSE @]

\* The unknown sentinel, in any letter case.
IsUnknown(v) == Lower(Chars(v)) = Chars("unknown")

DocumentExtractionReturned == DocumentHandlerRan /\ extractor = "returned"

\* The extractions that give the state the document handler returned.
ReturnedDocuments ==
    {x \in DocResponses : ~x.raises /\ state = _procesar_documento(HandlerInput, x)}

PassesValidation(x) ==
    /\ ~IsUnknown(x.document_type)
    /\ ~IsUnknown(x.document_number)
    /\ HasDigit(Chars(x.document_number))

(***************************************************************************)
(* C11: when the document handler's extraction passes validation (neither  *)
(* field is the unknown sentinel, the number has a digit), the handler     *)
(* stores document_type and document_number, sets conversation_stage to    *)
(* collecting_document, appends one confirmation reply, leaves eps and     *)
(* medical_specialty unset, and is_conversation_complete is false.         *)
(***************************************************************************)
C11_DocumentStored ==
    DocumentExtractionReturned =>
      LET returned == ReturnedDocuments
      IN  /\ returned # {}
          /\ \A x \in returned :
              PassesValidation(x) =>
                 /\ state.document_type = x.document_type
                 /\ state.document_number = x.document_number
                 /\ state.conversation_stage = "collecting_document"
                 /\ state.messages =
                       Append(current_state.messages,
                              AIMessage(DocConfirm, <<x.document_type, x.document_number>>))
                 /\ state.eps = None
                 /\ state.medical_specialty = None
                 /\ ~is_conversation_complete(state)
                 /\ state = [HandlerInput EXCEPT !.document_type = state.document_type,
                                                 !.document_number = state.document_number,
                                                 !.conversation_stage = state.conversation_stage,
                                                 !.messages = state.messages]

C11_Witness ==
    /\ DocumentExtractionReturned
    /\ current_state.document_number = None
    /\ state.document_type = "CC"
    /\ state.document_number = "12"
    /\ state.conversation_stage = "collecting_document"

(***************************************************************************)
(* C12: when the document handler's extraction fails validation (a field   *)
(* is the unknown sentinel, or the number has no digit), document_type and *)
(* document_number are not mutated, conversation_stage becomes             *)
(* requesting_document and the reply is the fixed re-prompt; the document  *)
(* fields are stored only when validation passes.                          *)
(***************************************************************************)
DocumentFieldsChanged ==
    \/ state.document_type # current_state.document_type
    \/ state.document_number # current_state.document_number

C12_RejectedDocumentNotStored ==
    /\ DocumentExtractionReturned =>
          \A x \in ReturnedDocuments :
             ~PassesValidation(x) =>
                state = [HandlerInput EXCEPT
                            !.conversation_stage = "requesting_document",
                            !.messages = Append(current_state.messages,
                                                AIMessage(DocReprompt, <<>>))]
    /\ (pc = "END" /\ DocumentFieldsChanged) =>
          /\ DocumentExtractionReturned
          /\ LET returned == ReturnedDocuments
             IN  /\ returned # {}
                 /\ \A x \in returned :
                       /\ PassesValidation(x)
                       /\ state.document_type = x.document_type
                       /\ state.document_number = x.document_number

C12_Witness ==
    /\ DocumentExtractionReturned
    /\ \E x \in ReturnedDocuments : ~PassesValidation(x)
    /\ state.document_type = None
    /\ state.document_number = None
    /\ state.conversation_stage = "requesting_document"
    /\ state.messages[Len(state.messages)] = AIMessage(DocReprompt, <<>>)

(***************************************************************************)
(* C13: an exception raised by the structured-output call never leaves a   *)
(* handler.  In the document handler it gives exactly the state and reply  *)
(* of a validation failure; in the appointment handler it appends one      *)
(* generic re-prompt and changes no state field other than messages.       *)
(***************************************************************************)
CitaHandlerRan == pc = "END" /\ trace[Len(trace)] = "procesar_cita"

C13_ExtractorFailsSoft ==
    /\ extractor = "raised" =>
          /\ pc \in {"END", "input", "exited"}
          /\ shown.kind # "error"
    /\ (DocumentHandlerRan /\ extractor = "raised") =>
          \A x \in DocResponses :
             (~x.raises /\ ~PassesValidation(x)) =>
                state = _procesar_documento(HandlerInput, x)
    /\ (CitaHandlerRan /\ extractor = "raised") =>
          state = [HandlerInput EXCEPT
                      !.messages = Append(current_state.messages,
                                          AIMessage(CitaError, <<>>))]

C13_Witness ==
    /\ DocumentHandlerRan
    /\ extractor = "raised"
    /\ state.document_number = None
    /\ state.conversation_stage = "requesting_document"
    /\ state.messages = Append(current_state.messages, AIMessage(DocReprompt, <<>>))

(***************************************************************************)
(* Vocabulary of the appointment handler claims.                           *)
(***************************************************************************)
CitaExtractionReturned == CitaHandlerRan /\ extractor = "returned"

\* The extractions that give the state the appointment handler returned.
ReturnedAppointments ==
    {x \in CitaResponses : ~x.raises /\ state = _procesar_cita(HandlerInput, x)}

\* Some whitespace-delimited token of the value occurs in the message,
\* letter case ignored.
TokenOccurs(value, message) ==
    LET tokens == Split(Lower(Chars(value)))
    IN  \E k \in 1..Len(tokens) : Contains(tokens[k], Lower(Chars(message)))

\* The values the appointment extraction can carry.
ExtractedValues ==
    {x.eps : x \in CitaResponses} \cup {x.medical_specialty : x \in CitaResponses}

\* A field counts as found: non-empty, not the sentinel, one token occurs.
\* Tabulated once over the extracted values and the user's messages.
FoundTable ==
    [value \in ExtractedValues, message \in UserInputs \cup MixedInputs |->
        /\ value # ""
        /\ ~IsUnknown(value)
        /\ TokenOccurs(value, message)]

CountsAsFound(value, message) == FoundTable[value, message]

BothFound(x) ==
    /\ CountsAsFound(x.eps, LastContent(current_state))
    /\ CountsAsFound(x.medical_specialty, LastContent(current_state))

(***************************************************************************)
(* C14: when the appointment handler finds both insurance and specialty,   *)
(* it stores eps and medical_specialty, sets conversation_stage to         *)
(* completed, appends one confirmation reply, leaves document_type and     *)
(* document_number unchanged, and is_conversation_complete is true.        *)
(***************************************************************************)
C14_AppointmentStored ==
    CitaExtractionReturned =>
      LET returned == ReturnedAppointments
      IN  /\ returned # {}
          /\ \A x \in returned :
              BothFound(x) =>
                 /\ state.eps = x.eps
                 /\ state.medical_specialty = x.medical_specialty
                 /\ state.conversation_stage = "completed"
                 /\ state.messages =
                       Append(current_state.messages,
                              AIMessage(CitaConfirm,
                                        <<current_state.document_type,
                                          current_state.document_number,
                                          x.eps, x.medical_specialty>>))
                 /\ state.document_type = current_state.document_type
                 /\ state.document_number = current_state.document_number
                 /\ is_conversation_complete(state)
                 /\ state = [HandlerInput EXCEPT !.eps = state.eps,
                                                 !.medical_specialty = state.medical_specialty,
                                                 !.conversation_stage = state.conversation_stage,
                                                 !.messages = state.messages]

C14_Witness ==
    /\ CitaExtractionReturned
    /\ current_state.eps = None
    /\ current_state.medical_specialty = None
    /\ state.eps = "Sura"
    /\ state.medical_specialty = "Derma General"
    /\ state.document_number = "12"
    /\ state.conversation_stage = "completed"

(***************************************************************************)
(* C15: in the appointment handler a field counts as found only if the     *)
(* extracted value is non-empty, is not the unknown sentinel and at least  *)
(* one of its tokens occurs in the user's message; an extracted insurance  *)
(* or specialty none of whose tokens occurs in the message is not found,   *)
(* and eps and medical_specialty are never stored from such an extraction. *)
(***************************************************************************)
AppointmentFieldsChanged ==
    \/ state.eps # current_state.eps
    \/ state.medical_specialty # current_state.medical_specialty

C15_AntiHallucination ==
    /\ CitaExtractionReturned =>
          \A x \in ReturnedAppointments :
             /\ eps_found(HandlerInput, x) =>
                   CountsAsFound(x.eps, LastContent(current_state))
             /\ specialty_found(HandlerInput, x) =>
                   CountsAsFound(x.medical_specialty, LastContent(current_state))
             /\ (\/ ~TokenOccurs(x.eps, LastContent(current_state))
                 \/ ~TokenOccurs(x.medical_specialty, LastContent(current_state))) =>
                   ~AppointmentFieldsChanged
    /\ (pc = "END" /\ AppointmentFieldsChanged) =>
          /\ CitaExtractionReturned
          /\ CountsAsFound(state.eps, LastContent(current_state))
          /\ CountsAsFound(state.medical_specialty, LastContent(current_state))

C15_Witness ==
    /\ CitaExtractionReturned
    /\ LastContent(current_state) = "Sura, Derma"
    /\ \E x \in ReturnedAppointments :
          /\ x.eps = "Sanitas"
          /\ ~TokenOccurs(x.eps, LastContent(current_state))
          /\ CountsAsFound(x.medical_specialty, LastContent(current_state))
    /\ state.eps = None
    /\ state.medical_specialty = None
    /\ state.messages[Len(state.messages)] = AIMessage(CitaMissing, <<"tu EPS">>)

(***************************************************************************)
(* C16: when the appointment handler finds at most one of insurance and    *)
(* specialty, it mutates neither eps nor medical_specialty (a field that   *)
(* was found is not stored either), leaves conversation_stage and the      *)
(* document fields unchanged, and appends one reply that names exactly the *)
(* fields still missing, both of them when both are missing.               *)
(***************************************************************************)
\* The names of the fields that are not found, insurance first.
StillMissing(x) ==
    (IF CountsAsFound(x.eps, LastContent(current_state))
     THEN <<>> ELSE <<"tu EPS">>)
    \o (IF CountsAsFound(x.medical_specialty, LastContent(current_state))
        THEN <<>> ELSE <<"la especialidad médica">>)

C16_PartialDataNotStored ==
    CitaExtractionReturned =>
        \A x \in ReturnedAppointments :
           ~BothFound(x) =>
              /\ state.eps = current_state.eps
              /\ state.medical_specialty = current_state.medical_specialty
              /\ state.conversation_stage = current_state.conversation_stage
              /\ state.document_type = current_state.document_type
              /\ state.document_number = current_state.document_number
              /\ state.messages =
                    Append(current_state.messages, AIMessage(CitaMissing, StillMissing(x)))
              /\ Len(StillMissing(x)) \in {1, 2}
              /\ state = [HandlerInput EXCEPT !.messages = state.messages]

C16_Witness ==
    /\ CitaExtractionReturned
    /\ \E x \in ReturnedAppointments :
          /\ CountsAsFound(x.eps, LastContent(current_state))
          /\ ~CountsAsFound(x.medical_specialty, LastContent(current_state))
    /\ state.eps = None
    /\ state.medical_specialty = None
    /\ state.conversation_stage = "collecting_document"
    /\ state.messages[Len(state.messages)] = AIMessage(CitaMissing, <<"la especialidad médica">>)

(***************************************************************************)
(* C17: the classifier applies its rules in strict precedence: (1) stage   *)
(* greeting and an affirmative token -> agendar_cita, even when a greeting *)
(* token is present too; (2) else a greeting token -> agendar_cita when an *)
(* appointment keyword is present as well, otherwise saludo; (3) else an   *)
(* appointment keyword -> agendar_cita; (4) else the text-generation       *)
(* service is consulted and its label is used only if it is one of the     *)
(* three labels, otherwise otro.  The service is consulted only in (4).    *)
(***************************************************************************)
GreetingWords ==
    <<"hola", "buenos días", "buenas tardes", "buenas noches", "hi", "hey", "saludos">>
AppointmentWords == <<"cita", "agendar", "reservar", "programar", "turno", "consulta">>

\* The classifier ran in this turn (to completion or to an exception).
ClassifierRan == Routed /\ trace # <<>> /\ trace[1] = "clasificar_intencion"

HasAppointmentWord == ContainsAny(AppointmentWords, Lower(TurnMessage))

\* The first rule of the claim that applies to the turn's stage and message.
PrecedenceRule ==
    IF /\ current_state.conversation_stage = "greeting"
       /\ ContainsAny(AffirmativeWords, Lower(TurnMessage))
    THEN 1
    ELSE IF ContainsAny(GreetingWords, Lower(TurnMessage)) THEN 2
    ELSE IF HasAppointmentWord THEN 3
    ELSE 4

\* The service's answer, trimmed and lowercased, when it is a label.
AnswerLabel(content) ==
    LET answer == Lower(Strip(Chars(content)))
    IN  IF answer = Chars("saludo") THEN "saludo"
        ELSE IF answer = Chars("agendar_cita") THEN "agendar_cita"
        ELSE IF answer = Chars("otro") THEN "otro"
        ELSE "otro"

C17_RulePrecedence ==
    /\ ClassifierRan =>
          LET rule == PrecedenceRule
          IN  /\ llm_result = "not_called" <=> rule # 4
              /\ rule = 1 => state.intent = "agendar_cita"
              /\ rule = 2 =>
                    state.intent = (IF HasAppointmentWord THEN "agendar_cita" ELSE "saludo")
              /\ rule = 3 => state.intent = "agendar_cita"
              /\ (rule = 4 /\ llm_result = "valid") => state.intent \in IntentLabels
              /\ (rule = 4 /\ llm_result = "invalid") => state.intent = "otro"
    /\ (pc = "clasificar_intencion" /\ PrecedenceRule = 4) =>
          \A r \in LLMResponses :
             ~r.raises => _clasificar_intencion(state, r).intent = AnswerLabel(r.content)

C17_Witness ==
    /\ ClassifierRan
    /\ current_state.conversation_stage = "greeting"
    /\ LastContent(current_state) = "Hola si"
    /\ llm_result = "not_called"
    /\ state.intent = "agendar_cita"
    /\ trace = <<"clasificar_intencion", "procesar_documento">>

(***************************************************************************)
(* C18: collected data is write-once across any sequence of turns:         *)
(* conversation_id never changes after the conversation is created, and    *)
(* document_type, document_number, eps and medical_specialty, once set,    *)
(* are never cleared or changed by any later turn.                         *)
(***************************************************************************)
\* Going from AgentState a to AgentState b keeps what a has collected.
KeepsCollected(a, b) ==
    /\ b.conversation_id = a.conversation_id
    /\ a.document_type # None => b.document_type = a.document_type
    /\ a.document_number # None => b.document_number = a.document_number
    /\ a.eps # None => b.eps = a.eps
    /\ a.medical_specialty # None => b.medical_specialty = a.medical_specialty

C18_WriteOnce ==
    [][/\ KeepsCollected(current_state, current_state')
       /\ KeepsCollected(state, state')
       /\ KeepsCollected(current_state, state')]_vars

C18_Witness ==
    /\ pc = "input"
    /\ turns >= 2
    /\ trace = <<"procesar_cita">>
    /\ extractor = "raised"
    /\ current_state.conversation_id = ConversationId
    /\ current_state.document_type = "CC"
    /\ current_state.document_number = "12"

(***************************************************************************)
(* C19: messages is append-only within a conversation: the message list    *)
(* before a turn is a prefix of the message list after it; no handler      *)
(* removes, reorders or rewrites an earlier message.                       *)
(***************************************************************************)
IsPrefix(a, b) == Len(a) <= Len(b) /\ SubSeq(b, 1, Len(a)) = a

C19_AppendOnly ==
    [][/\ IsPrefix(current_state.messages, current_state'.messages)
       /\ IsPrefix(state.messages, state'.messages)
       /\ IsPrefix(current_state.messages, state'.messages)]_vars

C19_Witness ==
    /\ pc = "input"
    /\ turns = 2
    /\ Len(current_state.messages) = 5
    /\ current_state.messages[1] = AIMessage(initial_greeting, <<>>)
    /\ current_state.messages[2] = HumanMessage("Hola")
    /\ current_state.messages[3] = AIMessage(SaludoReply, <<>>)
    /\ current_state.messages[4] = HumanMessage("si")
    /\ current_state.messages[5] = AIMessage(DocPrompt, <<>>)

(***************************************************************************)
(* C20: finalize is a no-op over state content: on a completed state it    *)
(* returns a state equal to its input in every field, so invoking it any   *)
(* number of times equals invoking it once; its only effect is to persist  *)
(* the unchanged state.                                                    *)
(***************************************************************************)
FinalizeRan == pc = "END" /\ trace = <<"finalizar_conversacion">>

C20_FinalizeNoOp ==
    FinalizeRan =>
        /\ is_conversation_complete(current_state)
        /\ state = current_state
        /\ _finalizar_conversacion(state) = state
        /\ _finalizar_conversacion(_finalizar_conversacion(current_state)) =
              _finalizar_conversacion(current_state)
        /\ extractor = "not_called"
        /\ llm_result = "not_called"
        /\ saves = 1
        /\ Stored(state)
        /\ save_conversation(db, _finalizar_conversacion(state), TRUE) = db

C20_Witness ==
    /\ FinalizeRan
    /\ current_state.conversation_stage = "completed"
    /\ current_state.document_number = "12"
    /\ current_state.eps = "Sura"
    /\ current_state.medical_specialty = "Derma"
    /\ state = current_state
    /\ Len(db.messages) = 2

(***************************************************************************)
(* C21: the reply-only handlers change nothing but what they are specified *)
(* to change: the greeting handler changes only conversation_stage (to     *)
(* greeting) and messages (one fixed welcome appended); the off-topic      *)
(* handler changes only messages (one fixed redirect appended); neither    *)
(* changes intent, the document fields, eps or medical_specialty.          *)
(***************************************************************************)
SaludoHandlerRan == pc = "END" /\ trace[Len(trace)] = "procesar_saludo"
OtroHandlerRan == pc = "END" /\ trace[Len(trace)] = "manejar_otro_tema"

\* Handler output b keeps the substantive fields of its input a.
SameCollected(a, b) ==
    /\ b.conversation_id = a.conversation_id
    /\ b.intent = a.intent
    /\ b.document_type = a.document_type
    /\ b.document_number = a.document_number
    /\ b.eps = a.eps
    /\ b.medical_specialty = a.medical_specialty

SaveSucceeded == saves' = saves + 1 /\ db_faults' = db_faults

RowsOf(d, id) == {r \in d.conversations : r.conversation_id = id}
MessagesOf(d, id) == SelectSeq(d.messages, LAMBDA r : r.conversation_id = id)
MessagesNotOf(d, id) == SelectSeq(d.messages, LAMBDA r : r.conversation_id # id)

\* The stored copy of conversation id in d is exactly state s.
Reflects(d, s) ==
    LET rows == RowsOf(d, s.conversation_id)
        stored == MessagesOf(d, s.conversation_id)
    IN  /\ Cardinality(rows) = 1
        /\ \A r \in rows :
              /\ r.intent = s.intent
              /\ r.document_type = s.document_type
              /\ r.document_number = s.document_number
              /\ r.eps = s.eps
              /\ r.medical_specialty = s.medical_specialty
              /\ r.conversation_stage = s.conversation_stage
              /\ r.status \in {"completed", "active"}
              /\ r.status = "completed" <=> IsSet(s.eps) /\ IsSet(s.medical_specialty)
        /\ Len(stored) = Len(s.messages)
        /\ \A k \in 1..Len(stored) :
              /\ stored[k].message_type = s.messages[k].type
              /\ stored[k].content = s.messages[k].content
              /\ stored[k].args = s.messages[k].args

C22_FullReplace ==
    [][SaveSucceeded =>
          /\ Reflects(db', state')
          /\ db'.conversations \ RowsOf(db', state'.conversation_id)
                 = db.conversations \ RowsOf(db, state'.conversation_id)
          /\ MessagesNotOf(db', state'.conversation_id)
                 = MessagesNotOf(db, state'.conversation_id)
          /\ save_conversation(db', state', TRUE) = db']_vars

\* The second save of the session has succeeded over the first one, next to
\* the other conversation's rows.
C22_Witness ==
    /\ pc = "END"
    /\ turns = 2
    /\ saves = 1
    /\ db_faults = MaxFaults
    /\ Len(MessagesOf(db, ConversationId)) = 5
    /\ \E r \in RowsOf(db, ConversationId) : r.document_number = "12"
    /\ RowsOf(db, OtherConversationId) # {}
    /\ Len(MessagesOf(db, OtherConversationId)) = 2

(***************************************************************************)
(* C23: a failure of the store during save is recovered locally.  The step *)
(* in which the save fails commits nothing, does not leave the graph with  *)
(* an exception, and produces a state and reply the handler produces for   *)
(* its input whatever the store does (finalizar_conversacion: its input,   *)
(* no reply); the turn then ends by showing that reply and handing that    *)
(* state to the next turn, while the stored copy stays behind.             *)
(***************************************************************************)
\* The step is a handler's save, and the store failed.
SaveFailed == saves' = saves + 1 /\ db_faults' = db_faults - 1

\* What the handler at pc returns for its input, over its extraction results
HandlerOutputs == {RunNode(pc, state, x) : x \in ExtractorResponses(pc, state)}

\* What the classifier returns for its input, over the model's answers
ClassifierOutputs ==
    {_clasificar_intencion(state, r) :
        r \in {q \in (IF ClassifierRule(state) = 4 THEN LLMResponses ELSE {NoCall}) :
                     ~ClassifierRaises(state, q)}}

\* A turn is ending whose state the store does not hold.
EndsUnsaved == pc = "END" /\ ~Reflects(db, state)

LastMessage(s) == s.messages[Len(s.messages)]

C23_SaveFailsSoft ==
    [][/\ SaveFailed =>
             /\ db' = db
             /\ pc' # "error"
             /\ pc \in HandlerNodes =>
                   /\ pc' = "END"
                   /\ state' \in HandlerOutputs
                   /\ IF pc = "finalizar_conversacion"
                      THEN state' = state
                      ELSE /\ Len(state'.messages) = Len(state.messages) + 1
                           /\ LastMessage(state').type = "ai"
             /\ pc = "clasificar_intencion" =>
                   /\ state' \in ClassifierOutputs
                   /\ pc' = _route_after_classification(state')
       /\ EndsUnsaved =>
             /\ current_state' = state
             /\ db' = db
             /\ Len(state.messages) > Len(current_state.messages) =>
                   /\ shown'.kind = "reply"
                   /\ shown'.content = LastMessage(state).content
       /\ pc = "input" /\ pc' = "entry" =>
             SubSeq(state'.messages, 1, Len(current_state.messages))
                 = current_state.messages]_vars

\* The handler's save of the first turn failed (the store holds the two
\* messages the classifier saved, not the reply); the second turn goes straight
\* to the Document Collection Handler on the state kept in memory.
C23_Witness ==
    /\ pc = "procesar_documento"
    /\ turns = 2
    /\ db_faults = 0
    /\ trace = <<>>
    /\ state.intent = "agendar_cita"
    /\ state.conversation_stage = "requesting_document"
    /\ Len(state.messages) = 4
    /\ Len(MessagesOf(db, ConversationId)) = 2
    /\ \A r \in RowsOf(db, ConversationId) : r.conversation_stage = None

(***************************************************************************)
(* C24: the session ends on completion.  A turn that ends with             *)
(* is_conversation_complete true ends the loop, and the loop ends this way *)
(* only then; once it has ended nothing more happens (no input is read,    *)
(* no node runs, the state and the store stay as they are).  Hence, in a   *)
(* session started from the seed state, finalizar_conversacion is never    *)
(* selected and never run.                                                 *)
(***************************************************************************)
TurnEnds == pc = "END"
LoopEnded == pc = "done"

C24_EndsOnCompletion ==
    [][/\ TurnEnds => (pc' = "done" <=> is_conversation_complete(state))
       /\ pc' = "done" => TurnEnds
       /\ ~LoopEnded
       /\ pc' # "finalizar_conversacion"
       /\ \A k \in 1..Len(trace') : trace'[k] # "finalizar_conversacion"
       /\ \A k \in 1..Len(decisions') : decisions'[k][2] # "finalizar_conversacion"]_vars

(***************************************************************************)
(* C25: the completion indicators agree in every state of a session from   *)
(* the seed state, between turns and inside a turn: eps is set iff         *)
(* medical_specialty is set; when they are set document_number is set;     *)
(* and conversation_stage = completed, is_conversation_complete, entry     *)
(* routing selecting finalizar_conversacion, and the status derived by     *)
(* save_conversation being completed are all true or all false.            *)
(***************************************************************************)
IndicatorsAgree(s) ==
    /\ IsSet(s.eps) <=> IsSet(s.medical_specialty)
    /\ IsSet(s.eps) => IsSet(s.document_number)
    /\ s.conversation_stage = "completed" <=> is_conversation_complete(s)
    /\ is_conversation_complete(s) <=> _route_entry(s) = "finalizar_conversacion"
    /\ _route_entry(s) = "finalizar_conversacion" <=> Status(s) = "completed"

C25_IndicatorsAgree ==
    /\ IndicatorsAgree(state)
    /\ IndicatorsAgree(current_state)
    /\ \A r \in db.conversations :
          r.status = "completed" <=> r.conversation_stage = "completed"

\* The Appointment Data Handler has just completed the conversation and
\* saved it; the turn started from a state with the document only.
C25_Witness ==
    /\ pc = "END"
    /\ IsSet(current_state.document_number) /\ ~IsSet(current_state.eps)
    /\ Status(current_state) = "active"
    /\ _route_entry(current_state) = "procesar_cita"
    /\ state.conversation_stage = "completed"
    /\ is_conversation_complete(state)
    /\ _route_entry(state) = "finalizar_conversacion"
    /\ \E r \in db.conversations : r.status = "completed"

(***************************************************************************)
(* C26: the scheduling intent is absorbing.  In every state of a session   *)
(* from the seed state a set document_number comes with intent =           *)
(* agendar_cita; and from the end of a turn that left intent =             *)
(* agendar_cita on, no step enters the Intent Classifier, the Greeting     *)
(* Handler or the Off-topic Handler, and intent stays agendar_cita inside  *)
(* and between the turns.                                                  *)
(***************************************************************************)
\* A turn has ended with the scheduling intent (current_state is what the
\* last ended turn returned, plus the human messages read since).
SchedulingKept == current_state.intent = "agendar_cita"

IntentNodes == {"clasificar_intencion", "procesar_saludo", "manejar_otro_tema"}

C26_SchedulingAbsorbing ==
    [][/\ IsSet(state'.document_number) => state'.intent = "agendar_cita"
       /\ IsSet(current_state'.document_number) => current_state'.intent = "agendar_cita"
       /\ SchedulingKept =>
             /\ pc' \notin IntentNodes
             /\ Len(decisions') > Len(decisions) =>
                   decisions'[Len(decisions')][2] \notin IntentNodes
             /\ state'.intent = "agendar_cita"
             /\ current_state'.intent = "agendar_cita"]_vars

\* A greeting typed after the scheduling intent was settled goes straight to
\* the Document Collection Handler.
C26_Witness ==
    /\ pc = "END"
    /\ turns = 2
    /\ SchedulingKept
    /\ LastContent(current_state) = "Hola"
    /\ trace = <<"procesar_documento">>
    /\ decisions = << <<"_route_entry", "procesar_documento">> >>
    /\ state.intent = "agendar_cita"

(***************************************************************************)
(* C27: conversation_stage only moves forward.  In every session from the  *)
(* seed state the stage is unset, greeting, requesting_document,           *)
(* collecting_document or completed, and no step takes it (inside a turn   *)
(* or between turns) to a value earlier in that order.  The Document       *)
(* Collection Handler is never entered with a document already set, so its *)
(* reply for that case is never given and the stage is never               *)
(* requesting_appointment_data (nor collecting_cita).                      *)
(***************************************************************************)
StageOrder == <<None, "greeting", "requesting_document", "collecting_document",
                "completed">>

StageRank(stage) == CHOOSE k \in 1..Len(StageOrder) : StageOrder[k] = stage

InOrder(stage) == \E k \in 1..Len(StageOrder) : StageOrder[k] = stage

C27_StageForward ==
    [][/\ InOrder(state'.conversation_stage)
       /\ InOrder(current_state'.conversation_stage)
       /\ StageRank(state'.conversation_stage) >= StageRank(state.conversation_stage)
       /\ StageRank(current_state'.conversation_stage)
              >= StageRank(current_state.conversation_stage)
       /\ ~(pc' = "procesar_documento" /\ Truthy(state'.document_number))
       /\ LastContent(state') # DocAlready]_vars

\* Greeting, first prompt and stored document in three turns.
C27_Witness ==
    /\ pc = "END"
    /\ turns = 3
    /\ current_state.conversation_stage = "requesting_document"
    /\ current_state.messages[3].content = SaludoReply
    /\ current_state.messages[5].content = DocPrompt
    /\ state.conversation_stage = "collecting_document"

(***************************************************************************)
(* C28: progress under a cooperative user.  If no service ever raises and  *)
(* the user does not leave and sends first a message with an appointment   *)
(* keyword, then a message from which the extraction returns a valid       *)
(* document, then a message in which the extraction finds both eps and     *)
(* medical_specialty, then, the turns being processed and the user's       *)
(* messages being read, the session reaches a state in which               *)
(* is_conversation_complete holds and the loop has ended.                  *)
(***************************************************************************)
ServicesNeverFail ==
    /\ llm_result # "raised"
    /\ extractor # "raised"
    /\ pc # "error"
    /\ db_faults = 0

Cooperative ==
    /\ ServicesNeverFail
    /\ pc # "exited"
    /\ (turns = 1 /\ Routed) => HasAppointmentWord
    /\ (turns = 2 /\ pc = "END") => DocumentExtractionReturned /\ IsSet(state.document_number)
    /\ (turns = 3 /\ pc = "END") => CitaExtractionReturned /\ IsSet(state.eps)
                                       /\ IsSet(state.medical_specialty)

Finished == pc = "done" /\ is_conversation_complete(current_state)

C28_CooperativeProgress == []Cooperative => <>Finished

\* The three messages were sent in order and the loop has ended on the
\* completed conversation.
C28_Witness ==
    /\ Finished
    /\ turns = 3
    /\ Len(current_state.messages) = 7
    /\ current_state.messages[2].content = "cita"
    /\ current_state.messages[4].content = "CC 12"
    /\ current_state.messages[6].content = "Sura, Derma"
    /\ current_state.messages[7].content = CitaConfirm

====
